---- MODULE Spec2Model ----
(***************************************************************************)
(* Payment ledger and ride-cost settlement of UniRide: Wallet, Transaction *)
(* and RidePayment (src/src/models/index.js) and PaymentService            *)
(* (src/unnamed/part_004).                                                 *)
(*                                                                         *)
(* Money is counted in units of 0.0001 BHD, so that 10% of an amount with  *)
(* three decimals is still an integer: 2.000 BHD = 20000, 0.001 BHD = 10.  *)
(* One ride with one driver is modelled; every passenger holds at most one *)
(* booking on it (createBooking refuses a second one).                     *)
(***************************************************************************)
EXTENDS Integers, Sequences, FiniteSets, TLC

\* ------------------------------------------------------------------ bounds
MaxTxns == 4            \* longest Transaction collection explored
MaxBalance == 40000     \* largest wallet balance explored
MaxLedgerTxns == 3      \* longest Transaction collection of the wallet-only machine
MaxDust == 1            \* largest part of a balance below MinTxnAmount explored

\* --------------------------------------------------------- program constants
DefaultFeePercentage == 10   \* PaymentService constructor  (src/unnamed/part_004:22)
MinTxnAmount == 10      \* transactionSchema.amount min 0.001
FeePercentage == 10     \* platformFeePercentage in calculateCostSplit

\* ------------------------------------------------------------------ inputs
Passengers == {"p1", "p2"}
Driver == "d"
Users == Passengers \cup {Driver}
BookingOrder == <<"p1", "p2">>
SeatsOf(p) == IF p = "p1" THEN 1 ELSE 2
PriceChoices == {0, 20000}
\* the calls explored in the settlement machine: <<user, amount>>
TopUpInputs == {<<"p1", 0>>, <<"p1", 40000>>, <<"p2", 40000>>}
WithdrawInputs == {<<"p1", 20000>>}
\* the calls explored in the wallet-only machine
SeatChoices == {1, 2}
LedgerUsers == {"p2"}
LedgerAmounts == {0 - 20000, 0, 1, 20000}
\* the concurrent calls explored: starting balances, and each call's amount
ConcBalances == {10000, 20000, 30000}
ConcAmounts == {10000, 20000}
Procs == {1, 2}
ConcUser == "p1"
\* the wallets an administrator freezes and reactivates
Freezable == {"p2", Driver}
Cancellable == {"p2"}

NoBalance == 0 - 1

VARIABLES
  pricePerSeat,   \* Ride.pricePerSeat of the ride
  wallets,        \* Wallet collection: user -> wallet document
  txns,           \* Transaction collection: user -> the user's records, oldest first
  bookings,       \* Booking collection of the ride: passenger -> booking
  ridePayment,    \* the ride's RidePayment document
  last,           \* what the last operation was and what it returned
  procs,          \* the concurrent createWithWalletUpdate calls: process -> progress
  platformFeePercentage,  \* PaymentService.platformFeePercentage, set by the constructor
  walletDocs      \* Wallet documents per user, as interleaved findOrCreateForUser calls
                  \* see them: user -> the documents inserted, oldest first

vars == <<pricePerSeat, wallets, txns, bookings, ridePayment, last, procs,
          platformFeePercentage, walletDocs>>

\* ------------------------------------------------------------------ Wallet
NoWallet == [exists |-> FALSE, balance |-> 0, pendingBalance |-> 0, status |-> "active"]
NewWallet == [exists |-> TRUE, balance |-> 0, pendingBalance |-> 0, status |-> "active"]

\* walletSchema: min validators of balance and pendingBalance, run by save()
WalletValid(w) == w.balance >= 0 /\ w.pendingBalance >= 0

\* document.save(): validation, then the document's fields replace the stored ones
WalletSave(w) ==
  IF WalletValid(w)
    THEN [ok |-> TRUE, wallet |-> w, err |-> "none"]
    ELSE [ok |-> FALSE, wallet |-> w, err |-> "ValidationError"]

credit(w, amount) ==
  IF w.status # "active"
    THEN [ok |-> FALSE, wallet |-> w, err |-> "WalletInactive"]
    ELSE WalletSave([w EXCEPT !.balance = @ + amount])

debit(w, amount) ==
  IF w.status # "active"
    THEN [ok |-> FALSE, wallet |-> w, err |-> "WalletInactive"]
    ELSE IF w.balance < amount
      THEN [ok |-> FALSE, wallet |-> w, err |-> "InsufficientFunds"]
      ELSE WalletSave([w EXCEPT !.balance = @ - amount])

canDebit(w, amount) == w.status = "active" /\ w.balance >= amount

\* a clearance that credits the balance and keeps the pending amount
clearPendingBalance_creditOnly(w, amount) ==
  IF w.pendingBalance < amount
    THEN [ok |-> FALSE, wallet |-> w, err |-> "InsufficientPendingFunds"]
    ELSE WalletSave([w EXCEPT !.balance = @ + amount])

clearPendingBalance(w, amount) ==
  IF w.pendingBalance < amount
    THEN [ok |-> FALSE, wallet |-> w, err |-> "InsufficientPendingFunds"]
    ELSE WalletSave([w EXCEPT !.pendingBalance = @ - amount, !.balance = @ + amount])

\* Wallet.findOrCreateForUser: the collection after the call
findOrCreateForUser(ws, u) ==
  IF ws[u].exists THEN ws ELSE [ws EXCEPT ![u] = NewWallet]

\* ------------------------------------------------------------- Transaction
\* transactionSchema validators that the callers can fail: amount min 0.001
TransactionValid(t) == t.amount >= MinTxnAmount

Txn(type, direction, amount, user, booking, balanceAfter) ==
  [type |-> type, direction |-> direction, amount |-> amount, user |-> user,
   booking |-> booking, balanceAfter |-> balanceAfter]

\* a helper that records the balance read before the credit or debit
createWithWalletUpdate_staleSnapshot(db, type, direction, amount, user, booking) ==
  LET ws1 == findOrCreateForUser(db.wallets, user)
      r == IF direction = "credit" THEN credit(ws1[user], amount)
                                   ELSE debit(ws1[user], amount)
      t == Txn(type, direction, amount, user, booking, ws1[user].balance)
  IN IF ~r.ok \/ ~TransactionValid(t)
       THEN [ok |-> FALSE, err |-> IF r.ok THEN "ValidationError" ELSE r.err,
             db |-> [db EXCEPT !.wallets = [ws1 EXCEPT ![user] = r.wallet]],
             balanceAfter |-> NoBalance, txn |-> 0]
       ELSE [ok |-> TRUE, err |-> "none",
             db |-> [db EXCEPT !.wallets = [ws1 EXCEPT ![user] = r.wallet],
                               !.txns[user] = Append(@, t)],
             balanceAfter |-> ws1[user].balance, txn |-> Len(db.txns[user]) + 1]

\* Transaction.createWithWalletUpdate. The wallet is saved outside the session,
\* so only the Transaction insert is undone by abortTransaction.
createWithWalletUpdate(db, type, direction, amount, user, booking) ==
  LET ws1 == findOrCreateForUser(db.wallets, user)
      r == IF direction = "credit" THEN credit(ws1[user], amount)
                                   ELSE debit(ws1[user], amount)
      ws2 == IF r.ok THEN [ws1 EXCEPT ![user] = r.wallet] ELSE ws1
      t == Txn(type, direction, amount, user, booking, r.wallet.balance)
  IN IF ~r.ok
       THEN [ok |-> FALSE, err |-> r.err, db |-> [db EXCEPT !.wallets = ws1],
             balanceAfter |-> NoBalance, txn |-> 0]
       ELSE IF ~TransactionValid(t)
         THEN [ok |-> FALSE, err |-> "ValidationError", db |-> [db EXCEPT !.wallets = ws2],
               balanceAfter |-> NoBalance, txn |-> 0]
         ELSE [ok |-> TRUE, err |-> "none",
               db |-> [db EXCEPT !.wallets = ws2, !.txns[user] = Append(@, t)],
               balanceAfter |-> r.wallet.balance, txn |-> Len(db.txns[user]) + 1]

\* ---------------------------------------------------------- PaymentService
Result(db, err) == [db |-> db, err |-> err, successful |-> <<>>, failed |-> <<>>,
                    skipped |-> {}]

topUpWallet(db, userId, amount) ==
  IF amount <= 0
    THEN Result(db, "InvalidAmount")
    ELSE LET r == createWithWalletUpdate(db, "top_up", "credit", amount, userId, "none")
         IN Result(r.db, r.err)

\* a withdrawal written as a bare decrement of the stored balance
withdrawFromWallet_decrement(db, userId, amount) ==
  LET ws1 == findOrCreateForUser(db.wallets, userId)
      w == [ws1[userId] EXCEPT !.balance = @ - amount]
  IN Result([db EXCEPT !.wallets = [ws1 EXCEPT ![userId] = w],
                       !.txns[userId] = Append(@, Txn("withdrawal", "debit", amount, userId,
                                                      "none", w.balance))], "none")

withdrawFromWallet(db, userId, amount) ==
  LET ws1 == findOrCreateForUser(db.wallets, userId)
      db1 == [db EXCEPT !.wallets = ws1]
  IN IF ~canDebit(ws1[userId], amount)
       THEN Result(db1, "InsufficientFunds")
       ELSE LET r == createWithWalletUpdate(db1, "withdrawal", "debit", amount, userId, "none")
            IN Result(r.db, r.err)

\* ------------------------------------------------------------- RidePayment
NoBooking == [status |-> "none", paymentStatus |-> "pending", seatsBooked |-> 0,
              totalAmount |-> 0]
NoRidePayment == [exists |-> FALSE, status |-> "pending", totalAmount |-> 0,
                  platformFee |-> 0, driverEarnings |-> 0, passengerPayments |-> <<>>]

RECURSIVE SumAmounts(_)
SumAmounts(pp) == IF pp = <<>> THEN 0 ELSE pp[1].amount + SumAmounts(Tail(pp))

IsQualifying(b) == b.status \in {"confirmed", "completed"}

\* Booking.find({ride, status in [confirmed, completed]}), as passengers in order
QualifyingBookings(bk) == SelectSeq(BookingOrder, LAMBDA p : IsQualifying(bk[p]))

\* RidePayment.calculateCostSplit
calculateCostSplit(bk) ==
  LET qs == QualifyingBookings(bk)
      pp == [i \in 1..Len(qs) |->
               [passenger |-> qs[i], seatsBooked |-> bk[qs[i]].seatsBooked,
                amount |-> pricePerSeat * bk[qs[i]].seatsBooked,
                status |-> "pending", txn |-> 0]]
      totalAmount == SumAmounts(pp)
      platformFee == (totalAmount * FeePercentage) \div 100
  IN [totalAmount |-> totalAmount, platformFee |-> platformFee,
      driverEarnings |-> totalAmount - platformFee, passengerPayments |-> pp]

\* a recompute that keeps the stored totalAmount
WithCostSplit_keepTotal(rp, cs) ==
  [rp EXCEPT !.platformFee = cs.platformFee, !.driverEarnings = cs.driverEarnings,
             !.passengerPayments = cs.passengerPayments]

\* the four fields of a cost split written over a RidePayment document
WithCostSplit(rp, cs) ==
  [rp EXCEPT !.totalAmount = cs.totalAmount, !.platformFee = cs.platformFee,
             !.driverEarnings = cs.driverEarnings,
             !.passengerPayments = cs.passengerPayments]

\* RidePayment.createForRide: findOneAndUpdate with upsert; status is not in the update
createForRide(db) ==
  LET cs == calculateCostSplit(db.bookings)
  IN IF db.rp.exists
       THEN [db EXCEPT !.rp = WithCostSplit(@, cs)]
       ELSE [db EXCEPT !.rp = WithCostSplit([NoRidePayment EXCEPT !.exists = TRUE], cs)]

AllEntries(rp, st) ==
  \A i \in 1..Len(rp.passengerPayments) : rp.passengerPayments[i].status = st
SomeEntry(rp, st) ==
  \E i \in 1..Len(rp.passengerPayments) : rp.passengerPayments[i].status = st

\* the try/catch of the loop of collectPayments, on entry i
chargeEntry(st, i) ==
  LET payment == st.db.rp.passengerPayments[i]
      p == payment.passenger
      db1 == [st.db EXCEPT !.wallets = findOrCreateForUser(@, p)]
      r == createWithWalletUpdate(db1, "ride_payment", "debit", payment.amount, p, p)
  IN IF ~canDebit(db1.wallets[p], payment.amount)
       THEN [st EXCEPT !.db = [db1 EXCEPT !.rp.passengerPayments[i].status = "failed"],
                       !.failed = Append(@, p)]
       ELSE IF r.ok
         THEN [st EXCEPT !.db = [r.db EXCEPT !.rp.passengerPayments[i].status = "paid",
                                             !.rp.passengerPayments[i].txn = r.txn,
                                             !.bookings[p].paymentStatus = "paid"],
                         !.successful = Append(@, p)]
         ELSE [st EXCEPT !.db = [r.db EXCEPT !.rp.passengerPayments[i].status = "failed"],
                         !.failed = Append(@, p)]

\* a loop turn without the test that skips a paid entry
collectOne_noSkip(st, i) == chargeEntry(st, i)

\* one turn of the loop of collectPayments, on entry i
collectOne(st, i) ==
  IF st.db.rp.passengerPayments[i].status = "paid"
    THEN [st EXCEPT !.skipped = @ \cup {st.db.rp.passengerPayments[i].passenger}]
    ELSE chargeEntry(st, i)

\* a loop that a failed entry ends
RECURSIVE collectFrom_stopAtFailure(_, _)
collectFrom_stopAtFailure(st, i) ==
  IF i > Len(st.db.rp.passengerPayments) \/ st.failed # <<>> THEN st
  ELSE collectFrom_stopAtFailure(collectOne(st, i), i + 1)

\* the loop of collectPayments from entry i on
RECURSIVE collectFrom(_, _)
collectFrom(st, i) ==
  IF i > Len(st.db.rp.passengerPayments) THEN st
  ELSE collectFrom(collectOne(st, i), i + 1)

\* RidePayment.collectPayments
collectPayments(db) ==
  LET st == collectFrom(Result([db EXCEPT !.rp.status = "collecting"], "none"), 1)
  IN IF AllEntries(st.db.rp, "paid")
       THEN [st EXCEPT !.db.rp.status = "collected"]
       ELSE st

\* RidePayment.payDriver
payDriver(db) ==
  IF db.rp.status # "collected"
    THEN Result(db, "PaymentsNotCollected")
    ELSE
      LET earnings == db.rp.driverEarnings
          ws1 == findOrCreateForUser(db.wallets, Driver)
          s1 == WalletSave([ws1[Driver] EXCEPT !.pendingBalance = @ + earnings])
          c == clearPendingBalance(s1.wallet, earnings)
          db2 == [db EXCEPT !.wallets = [ws1 EXCEPT ![Driver] = c.wallet]]
          r == createWithWalletUpdate(db2, "ride_earning", "credit", earnings, Driver, "none")
          fee == Txn("platform_fee", "credit", db.rp.platformFee, Driver, "none", NoBalance)
      IN IF ~s1.ok THEN Result([db EXCEPT !.wallets = ws1], s1.err)
         ELSE IF ~c.ok
           THEN Result([db EXCEPT !.wallets = [ws1 EXCEPT ![Driver] = s1.wallet]], c.err)
         ELSE IF ~r.ok THEN Result(r.db, r.err)
         ELSE IF ~TransactionValid(fee) THEN Result(r.db, "ValidationError")
         ELSE Result([r.db EXCEPT !.txns[Driver] = Append(@, fee),
                                  !.rp.status = "paid_to_driver"], "none")

\* index of the first entry of the passenger, 0 when there is none
EntryOf(rp, p) ==
  LET hits == {i \in 1..Len(rp.passengerPayments) : rp.passengerPayments[i].passenger = p}
  IN IF hits = {} THEN 0 ELSE CHOOSE i \in hits : \A j \in hits : i <= j

\* a status that one refunded entry makes fully_refunded
refundedStatus_some(rp) ==
  IF SomeEntry(rp, "refunded") THEN "fully_refunded" ELSE rp.status

\* the status of the RidePayment after a refund
refundedStatus(rp) ==
  IF AllEntries(rp, "refunded") THEN "fully_refunded"
  ELSE IF SomeEntry(rp, "refunded") THEN "partially_refunded"
  ELSE rp.status

\* a refund that does not look at the entry's status
refundPassenger_anyStatus(db, passengerId) ==
  LET i == EntryOf(db.rp, passengerId)
      r == createWithWalletUpdate(db, "refund", "credit", db.rp.passengerPayments[i].amount,
                                  passengerId, passengerId)
      db1 == [r.db EXCEPT !.rp.passengerPayments[i].status = "refunded",
                          !.bookings[passengerId].paymentStatus = "refunded"]
  IN IF i = 0 THEN Result(db, "PassengerPaymentNotFound")
     ELSE IF ~r.ok THEN Result(r.db, r.err)
     ELSE Result([db1 EXCEPT !.rp.status = refundedStatus(db1.rp)], "none")

\* RidePayment.refundPassenger
refundPassenger(db, passengerId) ==
  LET i == EntryOf(db.rp, passengerId)
  IN IF i = 0 THEN Result(db, "PassengerPaymentNotFound")
     ELSE IF db.rp.passengerPayments[i].status # "paid"
       THEN Result(db, "PaymentNotCompleted")
     ELSE
       LET r == createWithWalletUpdate(db, "refund", "credit",
                                       db.rp.passengerPayments[i].amount,
                                       passengerId, passengerId)
           db1 == [r.db EXCEPT !.rp.passengerPayments[i].status = "refunded",
                               !.bookings[passengerId].paymentStatus = "refunded"]
       IN IF ~r.ok THEN Result(r.db, r.err)
          ELSE Result([db1 EXCEPT !.rp.status = refundedStatus(db1.rp)], "none")

\* ---------------------------------------------- PaymentService, settlement
initializeRidePayment(db) == createForRide(db)

addBookingToRidePayment(db, b) ==
  IF db.bookings[b].status = "none"
    THEN Result(db, "BookingNotFound")
    ELSE IF ~db.rp.exists
      THEN Result(initializeRidePayment(db), "none")
      ELSE Result([db EXCEPT !.rp = WithCostSplit(@, calculateCostSplit(db.bookings))],
                  "none")

\* a payment that does not look at the booking's paymentStatus
processBookingPayment_noPaidCheck(db, b) ==
  LET booking == db.bookings[b]
      db1 == [db EXCEPT !.wallets = findOrCreateForUser(@, b)]
      r == createWithWalletUpdate(db1, "ride_payment", "debit", booking.totalAmount, b, b)
  IN IF booking.status = "none" THEN Result(db, "BookingNotFound")
     ELSE IF ~canDebit(db1.wallets[b], booking.totalAmount)
       THEN Result(db1, "InsufficientFunds")
     ELSE IF ~r.ok THEN Result(r.db, r.err)
     ELSE Result([r.db EXCEPT !.bookings[b].paymentStatus = "paid"], "none")

processBookingPayment(db, b) ==
  LET booking == db.bookings[b]
      db1 == [db EXCEPT !.wallets = findOrCreateForUser(@, b)]
      r == createWithWalletUpdate(db1, "ride_payment", "debit", booking.totalAmount, b, b)
      i == EntryOf(r.db.rp, b)
      db2 == [r.db EXCEPT !.bookings[b].paymentStatus = "paid"]
  IN IF booking.status = "none" THEN Result(db, "BookingNotFound")
     ELSE IF booking.paymentStatus = "paid" THEN Result(db, "AlreadyPaid")
     ELSE IF ~canDebit(db1.wallets[b], booking.totalAmount)
       THEN Result(db1, "InsufficientFunds")
     ELSE IF ~r.ok THEN Result(r.db, r.err)
     ELSE IF db2.rp.exists /\ i # 0
       THEN Result([db2 EXCEPT !.rp.passengerPayments[i].status = "paid",
                               !.rp.passengerPayments[i].txn = r.txn], "none")
     ELSE Result(db2, "none")

collectRidePayments(db) ==
  collectPayments(IF db.rp.exists THEN db ELSE initializeRidePayment(db))

\* reloads: whether ridePayment.reload() refreshes the document; mongoose documents
\* have no such method in every version, and the call then throws a TypeError
payDriverForRide(db, reloads) ==
  IF ~db.rp.exists THEN Result(db, "RidePaymentNotFound")
  ELSE IF db.rp.status \in {"pending", "collecting"}
    THEN LET c == collectRidePayments(db)
         IN IF ~reloads THEN Result(c.db, "TypeError")
            ELSE IF c.db.rp.status # "collected" THEN Result(c.db, "PaymentsNotCollected")
            ELSE payDriver(c.db)
  ELSE IF db.rp.status # "collected" THEN Result(db, "PaymentsNotCollected")
  ELSE payDriver(db)

\* "NoPaymentMade" is a return value ({refunded: false}), the others are thrown
refundBooking(db, b) ==
  LET booking == db.bookings[b]
      r == createWithWalletUpdate(db, "refund", "credit", booking.totalAmount, b, b)
  IN IF booking.status = "none" THEN Result(db, "BookingNotFound")
     ELSE IF booking.paymentStatus # "paid" THEN Result(db, "NoPaymentMade")
     ELSE IF db.rp.exists THEN refundPassenger(db, b)
     ELSE IF ~r.ok THEN Result(r.db, r.err)
     ELSE Result([r.db EXCEPT !.bookings[b].paymentStatus = "refunded"], "none")

RECURSIVE refundEach(_, _)
refundEach(st, todo) ==
  IF todo = <<>> THEN st
  ELSE LET r == refundBooking(st.db, Head(todo))
       IN refundEach(
            IF r.err = "none"
              THEN [st EXCEPT !.db = r.db, !.successful = Append(@, Head(todo))]
              ELSE IF r.err = "NoPaymentMade" THEN [st EXCEPT !.db = r.db]
              ELSE [st EXCEPT !.db = r.db, !.failed = Append(@, Head(todo))],
            Tail(todo))

refundAllPassengers(db) ==
  refundEach(Result(db, "none"),
             SelectSeq(BookingOrder, LAMBDA p : db.bookings[p].status # "none"
                                                /\ db.bookings[p].paymentStatus = "paid"))

\* ------------------------------------------- PaymentService, cost preview
\* the constructor: config.payment?.platformFeePercentage || 10; cfg 0 stands for
\* an absent value, which is falsy like 0
PlatformFeePercentageOf(cfg) == IF cfg = 0 THEN DefaultFeePercentage ELSE cfg

\* a rounding that cuts the digits after the third decimal
toFixed3_truncate(num, den) == (num \div (10 * den)) * 10

\* Number(x.toFixed(3)) of x = num / den >= 0, in units of 0.0001: the nearest
\* multiple of 0.001, a half rounded up
toFixed3(num, den) == ((2 * num + 10 * den) \div (20 * den)) * 10

RECURSIVE SumDue(_)
SumDue(ps) == IF ps = <<>> THEN 0 ELSE ps[1].amountDue + SumDue(Tail(ps))

RECURSIVE SumSeats(_)
SumSeats(ps) == IF ps = <<>> THEN 0 ELSE ps[1].seatsBooked + SumSeats(Tail(ps))

\* PaymentService.calculateRideCostSplit
calculateRideCostSplit(pct, price, bk) ==
  LET qs == QualifyingBookings(bk)
      passengers == [i \in 1..Len(qs) |->
                       [passengerId |-> qs[i], seatsBooked |-> bk[qs[i]].seatsBooked,
                        amountDue |-> price * bk[qs[i]].seatsBooked,
                        paymentStatus |-> bk[qs[i]].paymentStatus]]
      totalFromPassengers == SumDue(passengers)
      platformFee == toFixed3(totalFromPassengers * pct, 100)
      driverEarnings == toFixed3(totalFromPassengers - platformFee, 1)
  IN IF qs = <<>>
       THEN [bookedSeats |-> 0, totalFromPassengers |-> 0, platformFee |-> 0,
             platformFeePercentage |-> pct, driverEarnings |-> 0, passengers |-> <<>>]
       ELSE [bookedSeats |-> SumSeats(passengers),
             totalFromPassengers |-> totalFromPassengers, platformFee |-> platformFee,
             platformFeePercentage |-> pct, driverEarnings |-> driverEarnings,
             passengers |-> passengers]

\* PaymentService.previewBookingCost: totalCost
previewBookingCost(seatsRequested) == pricePerSeat * seatsRequested

\* PaymentService.checkPaymentEligibility; getWallet is findOrCreateForUser
checkPaymentEligibility(db, userId, seatsRequested) ==
  LET ws1 == findOrCreateForUser(db.wallets, userId)
      totalCost == previewBookingCost(seatsRequested)
      hasBalance == canDebit(ws1[userId], totalCost)
  IN [db |-> [db EXCEPT !.wallets = ws1], eligible |-> hasBalance,
      required |-> totalCost, currentBalance |-> ws1[userId].balance,
      shortfall |-> IF hasBalance THEN 0 ELSE totalCost - ws1[userId].balance]

\* ------------------------------------------------------------------ machine
DB == [wallets |-> wallets, txns |-> txns, bookings |-> bookings, rp |-> ridePayment]

TxnCount(log) == Len(log["p1"]) + Len(log["p2"]) + Len(log[Driver])

WithinBounds(db) ==
  /\ TxnCount(db.txns) <= MaxTxns
  /\ \A u \in Users : /\ db.wallets[u].balance <= MaxBalance
                       /\ db.wallets[u].balance % MinTxnAmount <= MaxDust

CommitAmount(op, arg, amount, r) ==
  /\ WithinBounds(r.db)
  /\ wallets' = r.db.wallets
  /\ txns' = r.db.txns
  /\ bookings' = r.db.bookings
  /\ ridePayment' = r.db.rp
  /\ last' = [op |-> op, arg |-> arg, amount |-> amount, err |-> r.err, successful |-> r.successful,
              failed |-> r.failed, skipped |-> r.skipped]
  /\ UNCHANGED <<pricePerSeat, platformFeePercentage, walletDocs, procs>>

CommitArg(op, arg, r) == CommitAmount(op, arg, 0, r)

Commit(op, r) == CommitArg(op, "none", r)

NoLast == [op |-> "init", arg |-> "none", amount |-> 0, err |-> "none", successful |-> <<>>, failed |-> <<>>,
           skipped |-> {}]
IdleProc == [pc |-> "idle", direction |-> "credit", amount |-> 0, doc |-> NoWallet,
             err |-> "none"]

Init ==
  /\ pricePerSeat \in PriceChoices
  /\ platformFeePercentage = PlatformFeePercentageOf(0)
  /\ wallets = [u \in Users |-> NoWallet]
  /\ txns = [u \in Users |-> <<>>]
  /\ bookings = [p \in Passengers |-> NoBooking]
  /\ ridePayment = NoRidePayment
  /\ last = NoLast
  /\ procs = [i \in Procs |-> IdleProc]
  /\ walletDocs = [u \in Users |-> <<>>]

TopUp ==
  \E in \in TopUpInputs :
    CommitAmount("topUp", in[1], in[2], topUpWallet(DB, in[1], in[2]))

Withdraw ==
  \E in \in WithdrawInputs :
    CommitAmount("withdraw", in[1], in[2], withdrawFromWallet(DB, in[1], in[2]))

\* bookingController.createBooking: confirmed at once, totalAmount = price x seats
CreateBooking ==
  \E p \in Passengers :
    /\ bookings[p].status = "none"
    /\ Commit("createBooking",
              Result([DB EXCEPT !.bookings[p] =
                        [status |-> "confirmed", paymentStatus |-> "pending",
                         seatsBooked |-> SeatsOf(p),
                         totalAmount |-> pricePerSeat * SeatsOf(p)]], "none"))

\* bookingController.cancelBooking
CancelBooking ==
  \E p \in Cancellable :
    /\ bookings[p].status \in {"pending", "confirmed"}
    /\ Commit("cancelBooking", Result([DB EXCEPT !.bookings[p].status = "cancelled"], "none"))

\* an administrator freezes or reactivates a wallet
SetWalletStatus ==
  \E u \in Freezable, s \in {"active", "frozen"} :
    /\ wallets[u].exists
    /\ wallets[u].status # s
    /\ Commit("setWalletStatus", Result([DB EXCEPT !.wallets[u].status = s], "none"))

InitializeRidePayment ==
  Commit("initializeRidePayment", Result(initializeRidePayment(DB), "none"))

AddBookingToRidePayment ==
  \E p \in Passengers : Commit("addBookingToRidePayment", addBookingToRidePayment(DB, p))

ProcessBookingPayment ==
  \E p \in Passengers :
    CommitArg("processBookingPayment", p, processBookingPayment(DB, p))

CollectRidePayments == Commit("collectRidePayments", collectRidePayments(DB))

PayDriverForRide ==
  \E reloads \in BOOLEAN : Commit("payDriverForRide", payDriverForRide(DB, reloads))

RefundBooking == \E p \in Passengers : CommitArg("refundBooking", p, refundBooking(DB, p))

\* RidePayment.refundPassenger called on the ride's document
RefundPassenger ==
  \E p \in Passengers :
    /\ ridePayment.exists
    /\ CommitArg("refundPassenger", p, refundPassenger(DB, p))

RefundAllPassengers == Commit("refundAllPassengers", refundAllPassengers(DB))

Next ==
  \/ TopUp
  \/ Withdraw
  \/ CreateBooking
  \/ CancelBooking
  \/ SetWalletStatus
  \/ InitializeRidePayment
  \/ AddBookingToRidePayment
  \/ ProcessBookingPayment
  \/ CollectRidePayments
  \/ PayDriverForRide
  \/ RefundBooking
  \/ RefundPassenger
  \/ RefundAllPassengers

Spec == Init /\ [][Next]_vars

\* ------------------------------------------------- the wallet-only machine
\* topUpWallet and withdrawFromWallet with every kind of amount, on wallets an
\* administrator may freeze
LedgerCommit(op, u, a, r) ==
  TxnCount(r.db.txns) <= MaxLedgerTxns /\ CommitAmount(op, u, a, r)

LedgerTopUp ==
  \E u \in LedgerUsers, a \in LedgerAmounts :
    LedgerCommit("topUp", u, a, topUpWallet(DB, u, a))

LedgerWithdraw ==
  \E u \in LedgerUsers, a \in LedgerAmounts :
    LedgerCommit("withdraw", u, a, withdrawFromWallet(DB, u, a))

LedgerCheckEligibility ==
  \E u \in LedgerUsers, seats \in SeatChoices :
    LedgerCommit("checkPaymentEligibility", u, previewBookingCost(seats),
                 Result(checkPaymentEligibility(DB, u, seats).db, "none"))

NextLedger ==
  \/ LedgerTopUp
  \/ LedgerWithdraw
  \/ LedgerCheckEligibility
  \/ SetWalletStatus

SpecLedger == Init /\ [][NextLedger]_vars

\* ---------------------------------- concurrent createWithWalletUpdate calls
\* Two calls on one wallet that a top-up has funded. Each call awaits findOrCreateForUser (ConcLoad), runs
\* credit or debit on the document it loaded up to the await of save (ConcSave),
\* then inserts its Transaction and commits (ConcRecord).
InitConc ==
  /\ pricePerSeat \in {20000}
  /\ platformFeePercentage = PlatformFeePercentageOf(0)
  /\ \E b \in ConcBalances :
       /\ wallets = [u \in Users |-> IF u = ConcUser THEN [NewWallet EXCEPT !.balance = b]
                                                      ELSE NoWallet]
       /\ txns = [u \in Users |-> IF u = ConcUser
                                     THEN <<Txn("top_up", "credit", b, u, "none", b)>>
                                     ELSE <<>>]
  /\ bookings = [p \in Passengers |-> NoBooking]
  /\ ridePayment = NoRidePayment
  /\ last = NoLast
  /\ walletDocs = [u \in Users |-> <<>>]
  /\ procs \in [Procs -> [pc : {"start"}, direction : {"credit", "debit"},
                          amount : ConcAmounts, doc : {NoWallet}, err : {"none"}]]

ConcLoad(i) ==
  /\ procs[i].pc = "start"
  /\ wallets' = findOrCreateForUser(wallets, ConcUser)
  /\ procs' = [procs EXCEPT ![i].pc = "loaded", ![i].doc = wallets'[ConcUser]]
  /\ UNCHANGED <<pricePerSeat, platformFeePercentage, walletDocs, txns, bookings, ridePayment, last>>

\* save() writes the paths the call modified: the balance computed from its own copy
ConcSave(i) ==
  /\ procs[i].pc = "loaded"
  /\ LET r == IF procs[i].direction = "credit" THEN credit(procs[i].doc, procs[i].amount)
                                               ELSE debit(procs[i].doc, procs[i].amount)
     IN IF r.ok
          THEN /\ wallets' = [wallets EXCEPT ![ConcUser].balance = r.wallet.balance]
               /\ procs' = [procs EXCEPT ![i].pc = "saved", ![i].doc = r.wallet]
          ELSE /\ wallets' = wallets
               /\ procs' = [procs EXCEPT ![i].pc = "failed", ![i].err = r.err]
  /\ UNCHANGED <<pricePerSeat, platformFeePercentage, walletDocs, txns, bookings, ridePayment, last>>

ConcRecord(i) ==
  /\ procs[i].pc = "saved"
  /\ LET t == Txn(IF procs[i].direction = "credit" THEN "top_up" ELSE "withdrawal",
                  procs[i].direction, procs[i].amount, ConcUser, "none",
                  procs[i].doc.balance)
     IN IF TransactionValid(t)
          THEN /\ txns' = [txns EXCEPT ![ConcUser] = Append(@, t)]
               /\ procs' = [procs EXCEPT ![i].pc = "done"]
          ELSE /\ txns' = txns
               /\ procs' = [procs EXCEPT ![i].pc = "failed", ![i].err = "ValidationError"]
  /\ UNCHANGED <<pricePerSeat, platformFeePercentage, walletDocs, wallets, bookings, ridePayment, last>>

NextConc ==
  \/ \E i \in Procs : ConcLoad(i)
  \/ \E i \in Procs : ConcSave(i)
  \/ \E i \in Procs : ConcRecord(i)

SpecConc == InitConc /\ [][NextConc]_vars

\* ------------------------------------------------ repeated cost previews
\* calculateRideCostSplit called again and again on a ride whose price, bookings
\* and configured fee percentage are drawn at the start.
MaxCalls == 2           \* most calls of calculateRideCostSplit explored
SplitPrices == {0, 5, 10, 1270, 20000}
ConfigChoices == {0, 15}
SplitStatuses == {"none", "confirmed", "completed", "cancelled"}

BookingWith(p, st) ==
  IF st = "none" THEN NoBooking
  ELSE [status |-> st, paymentStatus |-> "pending", seatsBooked |-> SeatsOf(p),
        totalAmount |-> pricePerSeat * SeatsOf(p)]

InitSplit ==
  /\ pricePerSeat \in SplitPrices
  /\ platformFeePercentage \in {PlatformFeePercentageOf(c) : c \in ConfigChoices}
  /\ \E st \in [Passengers -> SplitStatuses] :
       bookings = [p \in Passengers |-> BookingWith(p, st[p])]
  /\ wallets = [u \in Users |-> NoWallet]
  /\ txns = [u \in Users |-> <<>>]
  /\ ridePayment = NoRidePayment
  /\ last = NoLast
  /\ procs = [i \in Procs |-> IdleProc]
  /\ walletDocs = [u \in Users |-> <<>>]

SplitCalls == IF last.op = "calculateRideCostSplit" THEN last.calls ELSE 0

CalculateRideCostSplit ==
  /\ SplitCalls < MaxCalls
  /\ last' = [op |-> "calculateRideCostSplit", calls |-> SplitCalls + 1,
              result |-> calculateRideCostSplit(platformFeePercentage, pricePerSeat,
                                                bookings)]
  /\ UNCHANGED <<pricePerSeat, platformFeePercentage, walletDocs, wallets, txns, bookings,
                 ridePayment, procs>>

NextSplit == CalculateRideCostSplit

SpecSplit == InitSplit /\ [][NextSplit]_vars

\* ------------------------------------------------ the pending balance
\* The driver's wallet, with pendingBalance raised as payDriver raises it and
\* cleared by clearPendingBalance, for amounts drawn at each step.
PendingAmounts == {0 - 10000, 10000, 20000}
PendingStart == {0, 10000}

InitPending ==
  /\ pricePerSeat \in {20000}
  /\ platformFeePercentage = PlatformFeePercentageOf(0)
  /\ \E b \in PendingStart, pb \in PendingStart, st \in {"active", "frozen"} :
       wallets = [u \in Users |->
                    IF u = Driver
                      THEN [NewWallet EXCEPT !.balance = b, !.pendingBalance = pb,
                                             !.status = st]
                      ELSE NoWallet]
  /\ txns = [u \in Users |-> <<>>]
  /\ bookings = [p \in Passengers |-> NoBooking]
  /\ ridePayment = NoRidePayment
  /\ last = NoLast
  /\ procs = [i \in Procs |-> IdleProc]
  /\ walletDocs = [u \in Users |-> <<>>]

\* driverWallet.pendingBalance += amount; await driverWallet.save()
AddPending ==
  \E a \in PendingAmounts :
    LET s1 == WalletSave([wallets[Driver] EXCEPT !.pendingBalance = @ + a])
    IN /\ a > 0
       /\ s1.wallet.pendingBalance <= MaxBalance
       /\ CommitAmount("addPending", Driver, a,
                       Result([DB EXCEPT !.wallets[Driver] =
                                 IF s1.ok THEN s1.wallet ELSE @], s1.err))

\* await driverWallet.clearPendingBalance(amount)
ClearPendingBalance ==
  \E a \in PendingAmounts :
    LET c == clearPendingBalance(wallets[Driver], a)
    IN CommitAmount("clearPendingBalance", Driver, a,
                    Result([DB EXCEPT !.wallets[Driver] = IF c.ok THEN c.wallet ELSE @],
                           c.err))

NextPending == AddPending \/ ClearPendingBalance

SpecPending == InitPending /\ [][NextPending]_vars

\* ------------------------------------- concurrent findOrCreateForUser calls
\* Three calls for one user. Each awaits findOne (GocLookup) and returns what it
\* found; a call that found nothing awaits create (GocCreate), which the unique
\* index on user rejects when a document of the user is there by then.
GocUsers == Users
GocProcs == {1, 2, 3}
GocBalances == {0, 20000}

InitGoc ==
  /\ pricePerSeat \in {20000}
  /\ platformFeePercentage = PlatformFeePercentageOf(0)
  /\ wallets = [u \in Users |-> NoWallet]
  /\ txns = [u \in Users |-> <<>>]
  /\ bookings = [p \in Passengers |-> NoBooking]
  /\ ridePayment = NoRidePayment
  /\ last = NoLast
  /\ \E u \in GocUsers :
       /\ procs = [i \in GocProcs |-> [pc |-> "start", user |-> u, found |-> NoWallet,
                                     ret |-> NoWallet, err |-> "none"]]
       /\ \/ walletDocs = [v \in Users |-> <<>>]
          \/ \E b \in GocBalances :
               walletDocs = [v \in Users |->
                               IF v = u THEN <<[NewWallet EXCEPT !.balance = b]>>
                                        ELSE <<>>]

\* const wallet = await this.findOne({ user: userId }); a wallet found is returned
GocLookup(i) ==
  /\ procs[i].pc = "start"
  /\ procs' = [procs EXCEPT ![i] =
                 IF walletDocs[procs[i].user] = <<>>
                   THEN [@ EXCEPT !.pc = "create"]
                   ELSE [@ EXCEPT !.pc = "done", !.found = walletDocs[procs[i].user][1],
                                  !.ret = walletDocs[procs[i].user][1]]]
  /\ UNCHANGED <<pricePerSeat, platformFeePercentage, wallets, txns, bookings,
                 ridePayment, last, walletDocs>>

\* wallet = await this.create({ user: userId })
GocCreate(i) ==
  /\ procs[i].pc = "create"
  /\ IF walletDocs[procs[i].user] # <<>>
       THEN /\ procs' = [procs EXCEPT ![i].pc = "failed", ![i].err = "DuplicateKey"]
            /\ UNCHANGED walletDocs
       ELSE /\ walletDocs' = [walletDocs EXCEPT ![procs[i].user] = Append(@, NewWallet)]
            /\ procs' = [procs EXCEPT ![i].pc = "done", ![i].ret = NewWallet]
  /\ UNCHANGED <<pricePerSeat, platformFeePercentage, wallets, txns, bookings,
                 ridePayment, last>>

NextGoc == \E i \in GocProcs : GocLookup(i) \/ GocCreate(i)

SpecGoc == InitGoc /\ [][NextGoc]_vars

\* ================================================================== claims

\* C1: in every state reachable by topUp, withdraw, payForBooking, collect,
\* payDriver, refund and clearPending, every wallet has balance >= 0 and
\* pendingBalance >= 0.
C1_NonNegativeBalances ==
  \A u \in Users : wallets[u].balance >= 0 /\ wallets[u].pendingBalance >= 0

\* a withdrawal rejected on a wallet that earlier withdrawals have emptied
C1_Witness ==
  /\ last.op = "withdraw"
  /\ last.err = "InsufficientFunds"
  /\ wallets["p1"].balance = 0
  /\ Len(txns["p1"]) >= 3

\* C2: whenever createWithWalletUpdate fails (the wallet operation rejecting, or
\* the Transaction failing to persist after the wallet was credited or debited)
\* no Transaction is persisted and the wallet's balance is as before the call.
\* Stated of topUpWallet and withdrawFromWallet, which fail only that way or
\* before touching anything.
C2_FailureLeavesNoTrace ==
  [][(last'.op \in {"topUp", "withdraw"} /\ last'.err # "none")
       => (txns' = txns /\ \A u \in Users : wallets'[u].balance = wallets[u].balance)]_vars

\* C3: two createWithWalletUpdate calls interleaved on one wallet end with the
\* balance, and the successes, of running them one after the other in some order.
ConcDone == \A i \in Procs : procs[i].pc \in {"done", "failed"}

ConcStart == txns[ConcUser][1].balanceAfter

ConcApply(w, i) ==
  IF procs[i].direction = "credit" THEN credit(w, procs[i].amount)
                                   ELSE debit(w, procs[i].amount)

\* the calls i then j, each run to its end before the next starts
ConcSerial(i, j) ==
  LET w0 == [NewWallet EXCEPT !.balance = ConcStart]
      r1 == ConcApply(w0, i)
      w1 == IF r1.ok THEN r1.wallet ELSE w0
      r2 == ConcApply(w1, j)
      w2 == IF r2.ok THEN r2.wallet ELSE w1
  IN [balance |-> w2.balance, ok |-> [k \in {i, j} |-> IF k = i THEN r1.ok ELSE r2.ok]]

C3_Linearizable ==
  ConcDone =>
    \E i \in Procs, j \in Procs :
      /\ i # j
      /\ wallets[ConcUser].balance = ConcSerial(i, j).balance
      /\ \A k \in Procs : (procs[k].pc = "done") = ConcSerial(i, j).ok[k]

\* C4: payDriverForRide pays the driver (credits the driver's wallet, moves the
\* RidePayment to paid_to_driver) only if every passenger entry is paid at the
\* moment of payout.
C4_PaysOnlyWhenAllPaid ==
  [][(/\ last'.op = "payDriverForRide"
      /\ \/ wallets'[Driver].balance # wallets[Driver].balance
         \/ ridePayment'.status = "paid_to_driver" /\ ridePayment.status # "paid_to_driver")
       => AllEntries(ridePayment', "paid")]_vars

\* the entries a collect run starts from
EntriesBefore ==
  (IF ridePayment.exists THEN ridePayment ELSE createForRide(DB).rp).passengerPayments

\* how often x occurs in the sequence s
Occurrences(x, s) == Cardinality({k \in 1..Len(s) : s[k] = x})

\* C5: a collect run skips every entry that is already paid: the entry, its
\* passenger's wallet and its passenger's Transactions are as before the run.
C5_PaidEntriesSkipped ==
  [][(last'.op \in {"collectRidePayments", "payDriverForRide"} /\ ridePayment.exists)
       => \A i \in 1..Len(ridePayment.passengerPayments) :
            ridePayment.passengerPayments[i].status = "paid"
              => /\ ridePayment'.passengerPayments[i] = ridePayment.passengerPayments[i]
                 /\ wallets'[ridePayment.passengerPayments[i].passenger]
                      = wallets[ridePayment.passengerPayments[i].passenger]
                 /\ txns'[ridePayment.passengerPayments[i].passenger]
                      = txns[ridePayment.passengerPayments[i].passenger]]_vars

\* a collect run that skipped a paid entry and charged another one
C5_Witness ==
  /\ last.op = "collectRidePayments"
  /\ last.skipped # {}
  /\ last.successful # <<>>

\* C6: after collect the status is collected iff every entry is paid, it stays
\* collecting when an entry failed, and a later run made when every unpaid
\* passenger has an active wallet with sufficient funds moves it to collected.
C6_CollectedOnceFunded ==
  [][last'.op = "collectRidePayments"
       => /\ (ridePayment'.status = "collected") <=> AllEntries(ridePayment', "paid")
          /\ SomeEntry(ridePayment', "failed") => ridePayment'.status = "collecting"
          /\ (/\ ridePayment.exists
              /\ ridePayment.status = "collecting"
              /\ \A i \in 1..Len(ridePayment.passengerPayments) :
                   LET e == ridePayment.passengerPayments[i]
                   IN e.status # "paid" => canDebit(wallets[e.passenger], e.amount))
               => ridePayment'.status = "collected"]_vars

\* C7: in collect a passenger whose wallet cannot be debited is marked failed and
\* reported under failed, with the wallet unchanged and no Transaction; the other
\* entries are still processed, the debits made stay, and every entry processed
\* is reported once, under successful or under failed.
C7_FailuresIsolated ==
  [][last'.op = "collectRidePayments"
       => \A i \in 1..Len(EntriesBefore) :
            LET e == EntriesBefore[i]
                p == e.passenger
                w == wallets[p]
                after == ridePayment'.passengerPayments[i]
            IN /\ e.status = "paid"
                    => Occurrences(p, last'.successful) + Occurrences(p, last'.failed) = 0
               /\ e.status # "paid"
                    => Occurrences(p, last'.successful) + Occurrences(p, last'.failed) = 1
               /\ (e.status # "paid" /\ ~canDebit(w, e.amount))
                    => /\ after.status = "failed"
                       /\ Occurrences(p, last'.failed) = 1
                       /\ wallets'[p].balance = w.balance
                       /\ wallets'[p].pendingBalance = w.pendingBalance
                       /\ wallets'[p].status = w.status
                       /\ txns'[p] = txns[p]
               /\ Occurrences(p, last'.successful) = 1
                    => /\ after.status = "paid"
                       /\ wallets'[p].balance = w.balance - e.amount
                       /\ Len(txns'[p]) = Len(txns[p]) + 1]_vars

\* a run in which the first passenger failed and the second was still charged
C7_Witness ==
  /\ last.op = "collectRidePayments"
  /\ last.failed = <<"p1">>
  /\ last.successful = <<"p2">>

\* C8: refundPassenger succeeds only on an entry whose status is paid; on any
\* other entry, so on a second refund of the same entry, it fails with
\* PaymentNotCompleted, credits nothing and creates no Transaction.
C8_RefundOnlyPaid ==
  [][\A p \in Passengers :
       (last'.op \in {"refundPassenger", "refundBooking"} /\ last'.arg = p
          /\ ridePayment.exists)
         => LET i == EntryOf(ridePayment, p)
                paid == i # 0 /\ ridePayment.passengerPayments[i].status = "paid"
            IN /\ last'.err = "none"
                    => /\ paid
                       /\ ridePayment'.passengerPayments[i].status = "refunded"
                       /\ wallets'[p].balance
                            = wallets[p].balance + ridePayment.passengerPayments[i].amount
                       /\ Len(txns'[p]) = Len(txns[p]) + 1
               /\ ~paid
                    => /\ wallets' = wallets /\ txns' = txns /\ ridePayment' = ridePayment
                       /\ (last'.op = "refundPassenger" /\ i # 0)
                            => last'.err = "PaymentNotCompleted"]_vars

\* a second refundPassenger of an entry that is already refunded, rejected
C8_Witness ==
  /\ last.op = "refundPassenger"
  /\ last.err = "PaymentNotCompleted"
  /\ EntryOf(ridePayment, last.arg) # 0
  /\ ridePayment.passengerPayments[EntryOf(ridePayment, last.arg)].status = "refunded"

\* C9: after a successful refundPassenger the status is fully_refunded exactly
\* when every entry is refunded, and partially_refunded exactly when some entry
\* but not every entry is refunded.
C9_RefundedStatus ==
  (last.op \in {"refundPassenger", "refundBooking"} /\ last.err = "none"
     /\ ridePayment.exists)
    => /\ (ridePayment.status = "fully_refunded") <=> AllEntries(ridePayment, "refunded")
       /\ (ridePayment.status = "partially_refunded")
            <=> (SomeEntry(ridePayment, "refunded") /\ ~AllEntries(ridePayment, "refunded"))

\* a refund of one of two entries, the other one not refunded
C9_Witness ==
  /\ last.op = "refundBooking"
  /\ last.err = "none"
  /\ ridePayment.status = "partially_refunded"
  /\ Len(ridePayment.passengerPayments) = 2
  /\ SomeEntry(ridePayment, "refunded")
  /\ ~AllEntries(ridePayment, "refunded")

\* C10: fully_refunded is terminal: no operation changes the status of a
\* RidePayment that is fully_refunded.
C10_FullyRefundedTerminal ==
  [][ridePayment.status = "fully_refunded" => ridePayment'.status = "fully_refunded"]_vars

\* the Transactions of the driver that the step added
NewDriverTxns == SubSeq(txns'[Driver], Len(txns[Driver]) + 1, Len(txns'[Driver]))

\* C11: a successful payDriver sets the status to paid_to_driver, raises the
\* driver's balance by exactly driverEarnings, leaves the driver's pendingBalance
\* at its previous value and records one ride_earning and one platform_fee
\* Transaction.
C11_PayDriverEffect ==
  [][(last'.op = "payDriverForRide" /\ last'.err = "none")
       => /\ ridePayment'.status = "paid_to_driver"
          /\ wallets'[Driver].balance
               = wallets[Driver].balance + ridePayment'.driverEarnings
          /\ wallets'[Driver].pendingBalance = wallets[Driver].pendingBalance
          /\ Len(NewDriverTxns) = 2
          /\ NewDriverTxns[1].type = "ride_earning"
          /\ NewDriverTxns[1].direction = "credit"
          /\ NewDriverTxns[2].type = "platform_fee"]_vars

\* C12: no operation changes the balance or the pendingBalance of a wallet whose
\* status is not active.
C12_InactiveWalletUntouched ==
  [][\A u \in Users :
       (wallets[u].exists /\ wallets[u].status # "active")
         => /\ wallets'[u].balance = wallets[u].balance
            /\ wallets'[u].pendingBalance = wallets[u].pendingBalance]_vars

\* s is an initial part of t
IsPrefix(s, t) == Len(s) <= Len(t) /\ SubSeq(t, 1, Len(s)) = s

\* C13: the Transactions only grow, none is edited or deleted, and the
\* balanceAfter of every wallet-affecting Transaction that a step records is the
\* wallet's balance after its credit or debit.
C13_LedgerAppendOnly ==
  [][\A u \in Users :
       /\ IsPrefix(txns[u], txns'[u])
       /\ \A k \in (Len(txns[u]) + 1)..Len(txns'[u]) :
            txns'[u][k].type # "platform_fee"
              => txns'[u][k].balanceAfter = wallets'[u].balance]_vars

\* a withdrawal recorded after an earlier Transaction of the same wallet
C13_Witness ==
  /\ last.op = "withdraw"
  /\ last.err = "none"
  /\ Len(txns["p1"]) >= 2
  /\ txns["p1"][Len(txns["p1"])].balanceAfter = wallets["p1"].balance
  /\ txns["p1"][1].balanceAfter # wallets["p1"].balance

\* C14: every RidePayment record has totalAmount equal to the sum of its
\* passenger-entry amounts, and platformFee + driverEarnings equal to totalAmount.
C14_TotalsConsistent ==
  ridePayment.exists
    => /\ ridePayment.totalAmount = SumAmounts(ridePayment.passengerPayments)
       /\ ridePayment.platformFee + ridePayment.driverEarnings = ridePayment.totalAmount

\* a record recomputed for a second booking
C14_Witness ==
  /\ last.op = "addBookingToRidePayment"
  /\ last.err = "none"
  /\ Len(ridePayment.passengerPayments) = 2
  /\ ridePayment.totalAmount = 60000
  /\ ridePayment.platformFee = 6000

C16_FrozenOnceCollected ==
  [][(/\ last'.op \in {"initializeRidePayment", "addBookingToRidePayment"}
      /\ ridePayment.exists
      /\ ridePayment.status \notin {"pending", "collecting"})
       => /\ ridePayment'.totalAmount = ridePayment.totalAmount
          /\ ridePayment'.platformFee = ridePayment.platformFee
          /\ ridePayment'.driverEarnings = ridePayment.driverEarnings
          /\ ridePayment'.passengerPayments = ridePayment.passengerPayments]_vars

\* C17: a booking that processBookingPayment has paid and that was not refunded
\* has, in the RidePayment, an entry that is paid and linked to the payment
\* Transaction: here for the RidePayment made after the payment.
C17_PaidBookingInSync ==
  [][\A p \in Passengers :
       (/\ bookings[p].paymentStatus = "paid"
        /\ ~ridePayment.exists
        /\ bookings'[p].paymentStatus = "paid"
        /\ ridePayment'.exists
        /\ EntryOf(ridePayment', p) # 0)
         => /\ ridePayment'.passengerPayments[EntryOf(ridePayment', p)].status = "paid"
            /\ ridePayment'.passengerPayments[EntryOf(ridePayment', p)].txn # 0]_vars

\* the step left the passenger's wallet amounts and Transactions as they were
Untouched(p) ==
  /\ wallets'[p].balance = wallets[p].balance
  /\ wallets'[p].pendingBalance = wallets[p].pendingBalance
  /\ txns'[p] = txns[p]

\* C18: a debit for more than the wallet's balance, by withdraw, by
\* processBookingPayment or by a collect step, fails with InsufficientFunds,
\* leaves balance and pendingBalance unchanged and creates no Transaction.
C18_OverdraftRejected ==
  [][\A p \in Passengers :
       /\ (last'.op = "withdraw" /\ last'.arg = p /\ last'.amount > wallets[p].balance)
            => (last'.err = "InsufficientFunds" /\ Untouched(p))
       /\ (/\ last'.op = "processBookingPayment" /\ last'.arg = p
           /\ bookings[p].status # "none"
           /\ bookings[p].paymentStatus # "paid"
           /\ bookings[p].totalAmount > wallets[p].balance)
            => (last'.err = "InsufficientFunds" /\ Untouched(p))
       /\ (/\ last'.op = "collectRidePayments"
           /\ \E i \in 1..Len(EntriesBefore) :
                /\ EntriesBefore[i].passenger = p
                /\ EntriesBefore[i].status # "paid"
                /\ EntriesBefore[i].amount > wallets[p].balance)
            => (Occurrences(p, last'.failed) = 1 /\ Untouched(p))]_vars

\* a withdrawal of 2.000 refused on a wallet that holds less
C18_Witness ==
  /\ last.op = "withdraw"
  /\ last.err = "InsufficientFunds"
  /\ last.amount = 20000
  /\ wallets[last.arg].exists
  /\ wallets[last.arg].balance < last.amount

\* C19: topUp and withdraw with an amount <= 0 or below the minimum Transaction
\* amount are rejected as InvalidAmount, change no wallet and persist no
\* Transaction; every persisted Transaction has amount > 0.
C19_InvalidAmountRejected ==
  [][/\ (last'.op \in {"topUp", "withdraw"} /\ last'.amount < MinTxnAmount)
          => /\ last'.err = "InvalidAmount"
             /\ txns' = txns
             /\ \A u \in Users : /\ wallets'[u].balance = wallets[u].balance
                                 /\ wallets'[u].pendingBalance = wallets[u].pendingBalance
     /\ \A u \in Users : \A k \in 1..Len(txns'[u]) : txns'[u][k].amount > 0]_vars

\* C20: processBookingPayment on a booking that is already paid fails with
\* AlreadyPaid, debits nothing and creates no Transaction.
C20_AlreadyPaidRejected ==
  [][\A p \in Passengers :
       (/\ last'.op = "processBookingPayment" /\ last'.arg = p
        /\ bookings[p].status # "none"
        /\ bookings[p].paymentStatus = "paid")
         => /\ last'.err = "AlreadyPaid"
            /\ wallets' = wallets
            /\ txns' = txns
            /\ bookings' = bookings
            /\ ridePayment' = ridePayment]_vars

\* a retry of a payment that went through: one ride_payment debit recorded
C20_Witness ==
  /\ last.op = "processBookingPayment"
  /\ last.err = "AlreadyPaid"
  /\ bookings[last.arg].paymentStatus = "paid"
  /\ Cardinality({k \in 1..Len(txns[last.arg]) :
                    txns[last.arg][k].type = "ride_payment"}) = 1

\* C21: there is at most one Wallet per user, and every findOrCreateForUser call
\* returns the user's wallet, the existing one or a new one with balance 0,
\* pendingBalance 0 and status active, also when two calls for a new user
\* interleave between the lookup and the create.
C21_OneWalletPerUser ==
  /\ \A u \in Users : Len(walletDocs[u]) <= 1
  /\ \A i \in GocProcs :
       /\ procs[i].pc # "failed"
       /\ procs[i].pc = "done"
            => /\ walletDocs[procs[i].user] = <<procs[i].ret>>
               /\ procs[i].found.exists \/ procs[i].ret = NewWallet

\* C22: clearPendingBalance(amount) moves exactly amount from pendingBalance to
\* balance, so their sum is unchanged; when pendingBalance < amount it fails with
\* InsufficientPendingFunds and leaves both unchanged.
C22_ClearPendingMoves ==
  [][last'.op = "clearPendingBalance"
       => /\ wallets'[Driver].balance + wallets'[Driver].pendingBalance
               = wallets[Driver].balance + wallets[Driver].pendingBalance
          /\ wallets[Driver].pendingBalance < last'.amount
               => /\ last'.err = "InsufficientPendingFunds"
                  /\ wallets'[Driver] = wallets[Driver]
          /\ last'.err = "none"
               => /\ wallets'[Driver].pendingBalance
                       = wallets[Driver].pendingBalance - last'.amount
                  /\ wallets'[Driver].balance = wallets[Driver].balance + last'.amount
          /\ last'.err # "none" => wallets'[Driver] = wallets[Driver]
          /\ (wallets[Driver].pendingBalance >= last'.amount /\ last'.amount > 0)
               => last'.err = "none"]_vars

\* a clearance of 1.000 out of a pending 2.000
C22_Witness ==
  /\ last.op = "clearPendingBalance"
  /\ last.err = "none"
  /\ last.amount = 10000
  /\ wallets[Driver].pendingBalance = 10000
  /\ wallets[Driver].balance >= 10000

\* a clearance refused for lack of pending funds
C22_WitnessRefused ==
  /\ last.op = "clearPendingBalance"
  /\ last.err = "InsufficientPendingFunds"
  /\ wallets[Driver].pendingBalance = 10000

\* C23: on an active wallet, topUp(a) with a > 0 immediately followed by
\* withdraw(a) returns the balance to its start b and records exactly two
\* Transactions, with balanceAfter b + a and then b.
C23_TopUpThenWithdraw ==
  [][\A u \in Users :
       (/\ last.op = "topUp" /\ last.arg = u /\ last.amount > 0
        /\ last'.op = "withdraw" /\ last'.arg = u /\ last'.amount = last.amount
        /\ wallets[u].status = "active")
         => LET n == Len(txns'[u])
            IN /\ last.err = "none"
               /\ last'.err = "none"
               /\ n = Len(txns[u]) + 1
               /\ n >= 2
               /\ txns'[u][n - 1].type = "top_up"
               /\ txns'[u][n - 1].amount = last.amount
               /\ txns'[u][n].type = "withdrawal"
               /\ txns'[u][n].amount = last.amount
               /\ txns'[u][n].balanceAfter = txns'[u][n - 1].balanceAfter - last.amount
               /\ wallets'[u].balance = txns'[u][n].balanceAfter
               /\ wallets'[u].balance = wallets[u].balance - last.amount]_vars

\* C24: checkPaymentEligibility is read-only: a call creates or modifies no
\* Wallet, Transaction, Booking or RidePayment.
C24_EligibilityReadOnly ==
  [][last'.op = "checkPaymentEligibility"
       => /\ wallets' = wallets
          /\ txns' = txns
          /\ bookings' = bookings
          /\ ridePayment' = ridePayment]_vars

RidePaymentDebits(p) ==
  Cardinality({k \in 1..Len(txns[p]) :
                 txns[p][k].type = "ride_payment" /\ txns[p][k].direction = "debit"})

RefundCredits(p) ==
  Cardinality({k \in 1..Len(txns[p]) :
                 txns[p][k].type = "refund" /\ txns[p][k].direction = "credit"})

\* C25: a passenger is never charged twice for a booking: the ride_payment
\* debits recorded for it minus the refund credits recorded for it is 0 or 1.
C25_NeverChargedTwice ==
  \A p \in Passengers : RidePaymentDebits(p) - RefundCredits(p) \in {0, 1}

RideEarnings ==
  Cardinality({k \in 1..Len(txns[Driver]) : txns[Driver][k].type = "ride_earning"})

\* C26: the driver is paid at most once: after status 'paid_to_driver' no
\* operation returns the RidePayment to 'collecting' or 'collected', and at
\* most one ride_earning Transaction exists for the ride.
C26_DriverPaidOnce ==
  /\ [][ridePayment.status = "paid_to_driver"
          => ridePayment'.status \notin {"collecting", "collected"}]_vars
  /\ [](RideEarnings <= 1)

RECURSIVE TypeTotal(_, _)
TypeTotal(log, type) ==
  IF log = <<>> THEN 0
  ELSE (IF Head(log).type = type THEN Head(log).amount ELSE 0)
         + TypeTotal(Tail(log), type)

LedgerTotal(type) ==
  TypeTotal(txns["p1"], type) + TypeTotal(txns["p2"], type)
    + TypeTotal(txns[Driver], type)

Holdings(u) == wallets[u].balance + wallets[u].pendingBalance

\* C27: money is conserved: the sum over all wallets of balance +
\* pendingBalance, plus the recorded platform_fee amounts, never exceeds the
\* total of top-ups minus the total of withdrawals.
C27_MoneyConserved ==
  Holdings("p1") + Holdings("p2") + Holdings(Driver) + LedgerTotal("platform_fee")
    <= LedgerTotal("top_up") - LedgerTotal("withdrawal")

RECURSIVE LedgerBalance(_)
LedgerBalance(log) ==
  IF log = <<>> THEN 0
  ELSE LedgerBalance(SubSeq(log, 1, Len(log) - 1))
         + (LET t == log[Len(log)]
            IN IF t.type = "platform_fee" THEN 0
               ELSE IF t.direction = "credit" THEN t.amount ELSE 0 - t.amount)

\* C28: the ledger reconstructs every balance: each wallet's balance is the
\* sum of its credit Transactions minus the sum of its debit Transactions
\* (platform_fee entries excluded).
C28_LedgerReconstructsBalance ==
  \A u \in Users : wallets[u].balance = LedgerBalance(txns[u])

\* C29: a payDriver call that fails leaves the driver's balance and
\* pendingBalance and the RidePayment status as they were before the call
\* (calls made while the status is 'pending' or 'collecting' are left out:
\* there payDriverForRide collects first).
C29_FailedPayDriverNoEffect ==
  [][(/\ last'.op = "payDriverForRide"
      /\ last'.err # "none"
      /\ ridePayment.status \notin {"pending", "collecting"})
       => /\ wallets'[Driver].balance = wallets[Driver].balance
          /\ wallets'[Driver].pendingBalance = wallets[Driver].pendingBalance
          /\ ridePayment'.status = ridePayment.status]_vars

\* C30: the two cost-split calculators agree: for the same price, bookings and
\* configured percentage, RidePayment.calculateCostSplit and
\* PaymentService.calculateRideCostSplit return the same per-passenger amounts,
\* total, platformFee and driverEarnings (compared where the stored fee is a
\* whole number of 0.0001 BHD, so that it is represented exactly).
C30_CalculatorsAgree ==
  (/\ last.op = "calculateRideCostSplit"
   /\ (calculateCostSplit(bookings).totalAmount * FeePercentage) % 100 = 0)
    => LET m == calculateCostSplit(bookings)
           s == last.result
       IN /\ Len(m.passengerPayments) = Len(s.passengers)
          /\ \A i \in 1..Len(m.passengerPayments) :
               /\ m.passengerPayments[i].passenger = s.passengers[i].passengerId
               /\ m.passengerPayments[i].amount = s.passengers[i].amountDue
          /\ m.totalAmount = s.totalFromPassengers
          /\ m.platformFee = s.platformFee
          /\ m.driverEarnings = s.driverEarnings
====
